---- MODULE Spec2Model ----
(***************************************************************************)
(* Model of the SQL safety validator of backend/safety/validator.py with   *)
(* the RBAC service (backend/auth/rbac.py), the policy registry            *)
(* (backend/safety/policies.py) and the column access control              *)
(* (backend/safety/access_control.py).                                     *)
(*                                                                         *)
(* Text is modelled as a sequence of atoms.  An atom is a maximal run of   *)
(* word characters [A-Za-z0-9_] (a word), a run of whitespace (" "), or a  *)
(* single punctuation character.  Two word atoms are never adjacent, so    *)
(* the regular expression \bK\b matches exactly when some atom equals K.   *)
(***************************************************************************)
EXTENDS Integers, Sequences, FiniteSets, TLC

VARIABLES safety_mode, hash_seed, query, user, strict_arg, pc, result, raised,
          details, role_arg, table_arg, columns_arg, answer, mode_arg,
          column_policies, api

\* the process and the arguments of a validator call
callArgs == <<safety_mode, hash_seed, query, user, strict_arg>>

\* the arguments and the answer of a column access call
accessVars ==
    <<role_arg, table_arg, columns_arg, answer, mode_arg, column_policies,
      api>>

vars == <<callArgs, pc, result, raised, details, accessVars>>

(***************************************************************************)
(* Letter case of the words of the vocabulary: <<word, upper, lower>>.     *)
(* A word with no row has no letters (numbers, punctuation, whitespace).   *)
(***************************************************************************)
CaseTable ==
    { <<"SELECT", "SELECT", "select">>, <<"select", "SELECT", "select">>,
      <<"FROM", "FROM", "from">>, <<"from", "FROM", "from">>,
      <<"WHERE", "WHERE", "where">>, <<"LIMIT", "LIMIT", "limit">>,
      <<"DROP", "DROP", "drop">>, <<"drop", "DROP", "drop">>,
      <<"Drop", "DROP", "drop">>,
      <<"TABLE", "TABLE", "table">>, <<"table", "TABLE", "table">>,
      <<"DELETE", "DELETE", "delete">>, <<"UPDATE", "UPDATE", "update">>,
      <<"SET", "SET", "set">>, <<"GRANT", "GRANT", "grant">>,
      <<"ON", "ON", "on">>, <<"TO", "TO", "to">>,
      <<"WITH", "WITH", "with">>, <<"AS", "AS", "as">>,
      <<"JOIN", "JOIN", "join">>,
      <<"sales", "SALES", "sales">>, <<"SALES", "SALES", "sales">>,
      <<"salaries", "SALARIES", "salaries">>,
      <<"SALARIES", "SALARIES", "salaries">>,
      <<"customers", "CUSTOMERS", "customers">>,
      <<"products", "PRODUCTS", "products">>,
      <<"Products", "PRODUCTS", "products">>,
      <<"c", "C", "c">>, <<"s", "S", "s">>, <<"p", "P", "p">>,
      <<"id", "ID", "id">>, <<"price", "PRICE", "price">>,
      <<"STATUS", "STATUS", "status">>, <<"Shipped", "SHIPPED", "shipped">>,
      <<"ORDERNUMBER", "ORDERNUMBER", "ordernumber">>,
      <<"YEAR_ID", "YEAR_ID", "year_id">>, <<"SUM", "SUM", "sum">>,
      <<"updated_at", "UPDATED_AT", "updated_at">>,
      <<"join_date", "JOIN_DATE", "join_date">>,
      <<"hello", "HELLO", "hello">>, <<"world", "WORLD", "world">>,
      <<"bob", "BOB", "bob">>,
      <<"Customers", "CUSTOMERS", "customers">>,
      <<"City", "CITY", "city">>, <<"Phone", "PHONE", "phone">>,
      <<"strict", "STRICT", "strict">>, <<"STRICT", "STRICT", "strict">>,
      <<"Strict", "STRICT", "strict">>,
      <<"permissive", "PERMISSIVE", "permissive">>,
      <<"PERMISSIVE", "PERMISSIVE", "permissive">>,
      <<"Permissive", "PERMISSIVE", "permissive">>,
      <<"moderate", "MODERATE", "moderate">>,
      <<"MODERATE", "MODERATE", "moderate">>,
      <<"paranoid", "PARANOID", "paranoid">>,
      <<"strcit", "STRCIT", "strcit">>,
      <<"random", "RANDOM", "random">>, <<"RANDOM", "RANDOM", "random">>,
      <<"pg_sleep", "PG_SLEEP", "pg_sleep">>,
      <<"SLEEP", "SLEEP", "sleep">>, <<"BENCHMARK", "BENCHMARK", "benchmark">> }

\* str.upper() of one atom
UpperWord(w) ==
    IF \E r \in CaseTable : r[1] = w
    THEN (CHOOSE r \in CaseTable : r[1] = w)[2]
    ELSE w

\* str.lower() of one atom
LowerWord(w) ==
    IF \E r \in CaseTable : r[1] = w
    THEN (CHOOSE r \in CaseTable : r[1] = w)[3]
    ELSE w

\* str.upper() of a text
Upper(s) == [i \in 1..Len(s) |-> UpperWord(s[i])]

IsSpace(a) == a = " "

IsPunct(a) == a \in {";", ",", "*", "=", "'", "\"", "(", ")", "."}

RECURSIVE LStrip(_)
\* str.lstrip(): leading whitespace removed
LStrip(s) ==
    IF s # <<>> /\ IsSpace(Head(s)) THEN LStrip(Tail(s)) ELSE s

RECURSIVE RStrip(_)
\* str.rstrip(): trailing whitespace removed
RStrip(s) ==
    IF s # <<>> /\ IsSpace(s[Len(s)])
    THEN RStrip(SubSeq(s, 1, Len(s) - 1))
    ELSE s

\* str.strip()
Strip(s) == RStrip(LStrip(s))

RECURSIVE RStripSemicolons(_)
\* str.rstrip(';'): trailing ';' characters removed (and nothing else)
RStripSemicolons(s) ==
    IF s # <<>> /\ s[Len(s)] = ";"
    THEN RStripSemicolons(SubSeq(s, 1, Len(s) - 1))
    ELSE s

\* "x in s" for a single character x that is an atom of its own
ContainsAtom(s, x) == \E i \in 1..Len(s) : s[i] = x

(***************************************************************************)
(* Users and roles (backend/auth/models.py, backend/auth/rbac.py).         *)
(* A user is a record: present = FALSE stands for user = None.             *)
(***************************************************************************)
RoleEnum == {"ADMIN", "DATA_SCIENTIST", "ANALYST", "VIEWER"}

MkUser(rs, su) == [present |-> TRUE, roles |-> rs, is_superuser |-> su]

NoUser == [present |-> FALSE, roles |-> {}, is_superuser |-> FALSE]

\* User.has_role
has_role(u, role_name) == \E r \in u.roles : r = role_name

\* the table resolver with sales and customers alone for ANALYST
get_accessible_tables_analyst_two(u) ==
    IF has_role(u, "ADMIN") \/ has_role(u, "DATA_SCIENTIST")
    THEN {<<"*">>}
    ELSE IF has_role(u, "ANALYST")
    THEN {<<"sales">>, <<"customers">>}
    ELSE IF has_role(u, "VIEWER")
    THEN {<<"sales">>}
    ELSE {}

\* RBACService.get_accessible_tables; a table name is a text
get_accessible_tables(u) ==
    IF has_role(u, "ADMIN") \/ has_role(u, "DATA_SCIENTIST")
    THEN {<<"*">>}
    ELSE IF has_role(u, "ANALYST")
    THEN {<<"sales">>, <<"customers">>, <<"products">>, <<"orders">>}
    ELSE IF has_role(u, "VIEWER")
    THEN {<<"sales">>}
    ELSE {}

\* the column resolver that asks for the lower roles first
get_accessible_columns_lower_first(u, table_name) ==
    IF has_role(u, "ANALYST")
    THEN IF LowerWord(table_name) = "customers"
         THEN {"id", "name", "email", "phone", "address", "created_at"}
         ELSE {"*"}
    ELSE IF has_role(u, "VIEWER") /\ LowerWord(table_name) = "customers"
    THEN {"id", "name", "email"}
    ELSE IF has_role(u, "VIEWER") /\ LowerWord(table_name) = "sales"
    THEN {"id", "amount", "date", "product_id"}
    ELSE {"*"}

\* RBACService.get_accessible_columns; the list as the set of its elements
get_accessible_columns(u, table_name) ==
    IF has_role(u, "ADMIN") \/ has_role(u, "DATA_SCIENTIST")
    THEN {"*"}
    ELSE IF has_role(u, "ANALYST")
    THEN IF LowerWord(table_name) = "customers"
         THEN {"id", "name", "email", "phone", "address", "created_at"}
         ELSE {"*"}
    ELSE IF has_role(u, "VIEWER") /\ LowerWord(table_name) = "customers"
    THEN {"id", "name", "email"}
    ELSE IF has_role(u, "VIEWER") /\ LowerWord(table_name) = "sales"
    THEN {"id", "amount", "date", "product_id"}
    ELSE {"*"}

PermissionType ==
    {"READ", "WRITE", "DELETE", "ADMIN", "EXECUTE_QUERY", "APPROVE_QUERY",
     "MANAGE_USERS"}

\* RBACService.ROLE_HIERARCHY
ROLE_HIERARCHY ==
    [r \in RoleEnum |->
        CASE r = "ADMIN" -> {"DATA_SCIENTIST", "ANALYST", "VIEWER"}
          [] r = "DATA_SCIENTIST" -> {"ANALYST", "VIEWER"}
          [] r = "ANALYST" -> {"VIEWER"}
          [] r = "VIEWER" -> {}]

\* RBACService.DEFAULT_ROLE_PERMISSIONS
DEFAULT_ROLE_PERMISSIONS ==
    [r \in RoleEnum |->
        CASE r = "VIEWER" -> {"READ", "EXECUTE_QUERY"}
          [] r = "ANALYST" -> {"READ", "EXECUTE_QUERY"}
          [] r = "DATA_SCIENTIST" ->
                {"READ", "WRITE", "EXECUTE_QUERY", "APPROVE_QUERY"}
          [] r = "ADMIN" ->
                {"READ", "WRITE", "DELETE", "ADMIN", "EXECUTE_QUERY",
                 "APPROVE_QUERY", "MANAGE_USERS"}]

\* the resolution that adds the inherited roles' permissions alone
get_user_permissions_inherited_only(u) ==
    UNION { UNION { DEFAULT_ROLE_PERMISSIONS[i] : i \in ROLE_HIERARCHY[r] } :
              r \in u.roles \cap RoleEnum }

\* RBACService.get_user_permissions; RoleEnum(role.name) raises ValueError
\* on a name outside RoleEnum and the role is skipped
get_user_permissions(u) ==
    UNION { DEFAULT_ROLE_PERMISSIONS[r]
            \cup UNION { DEFAULT_ROLE_PERMISSIONS[i] : i \in ROLE_HIERARCHY[r] } :
              r \in u.roles \cap RoleEnum }

\* RBACService.can_execute_dangerous_query
can_execute_dangerous_query(u) ==
    \/ u.is_superuser
    \/ has_role(u, "ADMIN")
    \/ has_role(u, "DATA_SCIENTIST")

(***************************************************************************)
(* Policy registry (backend/safety/policies.py).                           *)
(***************************************************************************)
STRICT_POLICY ==
    [mode |-> "strict",
     allowed_commands |-> {"SELECT"},
     max_rows |-> 100,
     allow_joins |-> FALSE,
     allow_subqueries |-> FALSE,
     forbidden_functions |-> {"SLEEP", "BENCHMARK", "pg_sleep", "random"},
     required_where_clause |-> TRUE]

MODERATE_POLICY ==
    [mode |-> "moderate",
     allowed_commands |-> {"SELECT", "WITH"},
     max_rows |-> 1000,
     allow_joins |-> TRUE,
     allow_subqueries |-> TRUE,
     forbidden_functions |-> {"SLEEP", "BENCHMARK", "pg_sleep"},
     required_where_clause |-> FALSE]

\* the permissive policy with the row cap of the moderate one
PERMISSIVE_POLICY_capped ==
    [mode |-> "permissive",
     allowed_commands |->
         {"SELECT", "INSERT", "UPDATE", "DELETE", "WITH", "CREATE", "DROP"},
     max_rows |-> 1000,
     allow_joins |-> TRUE,
     allow_subqueries |-> TRUE,
     forbidden_functions |-> {},
     required_where_clause |-> FALSE]

PERMISSIVE_POLICY ==
    [mode |-> "permissive",
     allowed_commands |->
         {"SELECT", "INSERT", "UPDATE", "DELETE", "WITH", "CREATE", "DROP"},
     max_rows |-> 10000,
     allow_joins |-> TRUE,
     allow_subqueries |-> TRUE,
     forbidden_functions |-> {},
     required_where_clause |-> FALSE]

\* the factory that compares the mode name as it is spelled
get_policy_exact_case(mode) ==
    IF mode = "strict" THEN STRICT_POLICY
    ELSE IF mode = "permissive" THEN PERMISSIVE_POLICY
    ELSE MODERATE_POLICY

\* get_policy(mode)
get_policy(mode) ==
    IF LowerWord(mode) = "strict" THEN STRICT_POLICY
    ELSE IF LowerWord(mode) = "permissive" THEN PERMISSIVE_POLICY
    ELSE MODERATE_POLICY

(***************************************************************************)
(* Column access control (backend/safety/access_control.py).               *)
(***************************************************************************)
\* COLUMN_ACCESS_POLICIES as a set of <<role, table, columns>> entries
COLUMN_ACCESS_POLICIES ==
    { <<"VIEWER", "customers", {"customername", "city", "country"}>>,
      <<"VIEWER", "sales", {"*"}>>,
      <<"ANALYST", "customers", {"*"}>>,
      <<"ANALYST", "sales", {"*"}>> }

\* AccessControlService.get_allowed_columns
get_allowed_columns(role, table) ==
    IF role = "ADMIN" THEN {"*"}
    ELSE IF \E e \in COLUMN_ACCESS_POLICIES : e[1] = role /\ e[2] = table
    THEN (CHOOSE e \in COLUMN_ACCESS_POLICIES : e[1] = role /\ e[2] = table)[3]
    ELSE {"*"}

SENSITIVE_COLUMNS ==
    { <<"users", {"hashed_password", "email", "is_superuser"}>>,
      <<"salaries", {"amount", "bonus"}>>,
      <<"customers", {"credit_limit", "phone"}>> }

\* table in SENSITIVE_COLUMNS and column in SENSITIVE_COLUMNS[table]
IsSensitive(table, column) ==
    \E e \in SENSITIVE_COLUMNS : e[1] = table /\ column \in e[2]

\* the column check that consults the whitelist before the sensitive columns
is_column_access_allowed_whitelist_first(role, table, column) ==
    IF role = "ADMIN" THEN TRUE
    ELSE IF "*" \in get_allowed_columns(role, table) THEN TRUE
    ELSE IF IsSensitive(table, column) THEN FALSE
    ELSE LowerWord(column)
            \in {LowerWord(c) : c \in get_allowed_columns(role, table)}

\* AccessControlService.is_column_access_allowed
is_column_access_allowed(role, table, column) ==
    IF role = "ADMIN" THEN TRUE
    ELSE IF IsSensitive(table, column) THEN FALSE
    ELSE IF "*" \in get_allowed_columns(role, table) THEN TRUE
    ELSE LowerWord(column)
            \in {LowerWord(c) : c \in get_allowed_columns(role, table)}

\* AccessControlService.get_allowed_columns, COLUMN_ACCESS_POLICIES holding
\* the entries policies at the time of the call
get_allowed_columns_of(policies, role, table) ==
    IF role = "ADMIN" THEN {"*"}
    ELSE IF \E e \in policies : e[1] = role /\ e[2] = table
    THEN (CHOOSE e \in policies : e[1] = role /\ e[2] = table)[3]
    ELSE {"*"}

\* AccessControlService.is_column_access_allowed, COLUMN_ACCESS_POLICIES
\* holding the entries policies at the time of the call
is_column_access_allowed_of(policies, role, table, column) ==
    IF role = "ADMIN" THEN TRUE
    ELSE IF IsSensitive(table, column) THEN FALSE
    ELSE IF "*" \in get_allowed_columns_of(policies, role, table) THEN TRUE
    ELSE LowerWord(column)
            \in {LowerWord(c) : c \in get_allowed_columns_of(policies, role, table)}

\* AccessControlService.filter_query_columns
filter_query_columns(role, table, requested_columns) ==
    LET allowed(col) == is_column_access_allowed(role, table, col)
    IN  SelectSeq(requested_columns, allowed)

(***************************************************************************)
(* sqlparse, as validate and _extract_tables use it: sqlparse.parse(q)[0]  *)
(* is the first statement, .tokens its top-level token list (whitespace    *)
(* tokens included), get_type() its statement type.                        *)
(* A token is a record: cls is the Python class (Token for a leaf),        *)
(* ttype the lexer's token type ("None" for a group), text the atoms it    *)
(* spans, real what get_real_name() returns, items the sub-tokens that     *)
(* IdentifierList.get_identifiers() yields.                                *)
(***************************************************************************)
Tok(c, t, x, r, its) ==
    [cls |-> c, ttype |-> t, text |-> x, real |-> r, items |-> its]

DMLWords == {"SELECT", "INSERT", "DELETE", "UPDATE", "REPLACE", "MERGE"}

DDLWords == {"DROP", "CREATE", "ALTER", "TRUNCATE"}

KeywordWords ==
    {"FROM", "WHERE", "TABLE", "SET", "GRANT", "REVOKE", "ON", "TO", "AS",
     "JOIN", "LIMIT", "INTO", "UNION", "EXCEPT", "HAVING", "RETURNING"}

NumberWords == {"1", "10", "100", "2003", "2004"}

\* the lexer's token for one atom outside a quoted literal
LexAtom(a) ==
    LET t == IF IsSpace(a) THEN "Whitespace"
             ELSE IF a = "*" THEN "Wildcard"
             ELSE IF a = "=" THEN "Comparison"
             ELSE IF a \in {"'", "\""} THEN "Error"
             ELSE IF IsPunct(a) THEN "Punctuation"
             ELSE IF UpperWord(a) \in DMLWords THEN "DML"
             ELSE IF UpperWord(a) \in DDLWords THEN "DDL"
             ELSE IF UpperWord(a) = "WITH" THEN "CTE"
             ELSE IF UpperWord(a) \in KeywordWords THEN "Keyword"
             ELSE IF a \in NumberWords THEN "Number"
             ELSE "Name"
    IN  Tok("Token", t, <<a>>,
            IF t \in {"Name", "Wildcard"} THEN <<a>> ELSE <<>>, <<>>)

\* index of the first atom equal to a at or after i, 0 if none
RECURSIVE IndexFrom(_, _, _)
IndexFrom(s, a, i) ==
    IF i > Len(s) THEN 0
    ELSE IF s[i] = a THEN i
    ELSE IndexFrom(s, a, i + 1)

\* the lexer: a quote opens a literal that runs to the next same quote
\* ('...' a string, "..." a quoted name); an unclosed quote is one token
RECURSIVE Lex(_)
Lex(s) ==
    IF s = <<>> THEN <<>>
    ELSE IF Head(s) \in {"'", "\""} /\ IndexFrom(s, Head(s), 2) # 0
    THEN LET j == IndexFrom(s, Head(s), 2)
             q == Head(s) = "\""
         IN  <<Tok("Token", IF q THEN "Symbol" ELSE "String", SubSeq(s, 1, j),
                   IF q THEN SubSeq(s, 2, j - 1) ELSE <<>>, <<>>)>>
             \o Lex(SubSeq(s, j + 1, Len(s)))
    ELSE <<LexAtom(Head(s))>> \o Lex(Tail(s))

IsWs(t) == t.ttype = "Whitespace"

IsKeywordType(t) == t.ttype \in {"Keyword", "DML", "DDL", "CTE"}

IsPunctTok(t, a) == t.ttype = "Punctuation" /\ t.text = <<a>>

RECURSIVE ConcatText(_)
ConcatText(toks) ==
    IF toks = <<>> THEN <<>> ELSE Head(toks).text \o ConcatText(Tail(toks))

\* index of the first non-whitespace token after i, 0 if none (token_next)
RECURSIVE NextNonWs(_, _)
NextNonWs(toks, i) ==
    IF i + 1 > Len(toks) THEN 0
    ELSE IF IsWs(toks[i + 1]) THEN NextNonWs(toks, i + 1)
    ELSE i + 1

\* index of the ")" closing the "(" at depth d, scanning from i; 0 if none
RECURSIVE MatchParen(_, _, _)
MatchParen(toks, i, d) ==
    IF i > Len(toks) THEN 0
    ELSE IF IsPunctTok(toks[i], "(") THEN MatchParen(toks, i + 1, d + 1)
    ELSE IF IsPunctTok(toks[i], ")")
    THEN IF d = 1 THEN i ELSE MatchParen(toks, i + 1, d - 1)
    ELSE MatchParen(toks, i + 1, d)

\* group_parenthesis: "(" ... ")" becomes one Parenthesis token
RECURSIVE GroupParenthesis(_)
GroupParenthesis(toks) ==
    IF toks = <<>> THEN <<>>
    ELSE IF IsPunctTok(Head(toks), "(") /\ MatchParen(toks, 2, 1) # 0
    THEN LET j == MatchParen(toks, 2, 1)
         IN  <<Tok("Parenthesis", "None", ConcatText(SubSeq(toks, 1, j)),
                   <<>>, <<>>)>>
             \o GroupParenthesis(SubSeq(toks, j + 1, Len(toks)))
    ELSE <<Head(toks)>> \o GroupParenthesis(Tail(toks))

\* group_functions: a name directly followed by a parenthesis
RECURSIVE GroupFunctions(_)
GroupFunctions(toks) ==
    IF toks = <<>> THEN <<>>
    ELSE IF Len(toks) >= 2 /\ toks[1].ttype = "Name"
            /\ toks[2].cls = "Parenthesis"
    THEN <<Tok("Function", "None", ConcatText(SubSeq(toks, 1, 2)),
               toks[1].real, <<>>)>>
         \o GroupFunctions(SubSeq(toks, 3, Len(toks)))
    ELSE <<Head(toks)>> \o GroupFunctions(Tail(toks))

WhereClose == {"LIMIT", "UNION", "EXCEPT", "HAVING", "RETURNING", "INTO"}

IsKeyword(t, w) == t.ttype = "Keyword" /\ Upper(t.text) = <<w>>

\* index of the first keyword of WhereClose at or after i, 0 if none
RECURSIVE WhereEnd(_, _)
WhereEnd(toks, i) ==
    IF i > Len(toks) THEN 0
    ELSE IF \E w \in WhereClose : IsKeyword(toks[i], w) THEN i
    ELSE WhereEnd(toks, i + 1)

\* group_where: WHERE up to the token before a closing keyword, or to the end
RECURSIVE GroupWhere(_)
GroupWhere(toks) ==
    IF toks = <<>> THEN <<>>
    ELSE IF IsKeyword(Head(toks), "WHERE")
    THEN LET e == WhereEnd(toks, 2)
             j == IF e = 0 THEN Len(toks) ELSE e - 1
         IN  <<Tok("Where", "None", ConcatText(SubSeq(toks, 1, j)),
                   <<>>, <<>>)>>
             \o GroupWhere(SubSeq(toks, j + 1, Len(toks)))
    ELSE <<Head(toks)>> \o GroupWhere(Tail(toks))

IsNameLike(t) == t.ttype \in {"Name", "Symbol"}

\* group_period: a.b (or a.* ) becomes one Identifier whose real name is b
RECURSIVE GroupPeriod(_)
GroupPeriod(toks) ==
    IF toks = <<>> THEN <<>>
    ELSE IF Len(toks) >= 3 /\ IsNameLike(toks[1]) /\ IsPunctTok(toks[2], ".")
            /\ (IsNameLike(toks[3]) \/ toks[3].ttype = "Wildcard")
    THEN <<Tok("Identifier", "None", ConcatText(SubSeq(toks, 1, 3)),
               toks[3].real, <<>>)>>
         \o GroupPeriod(SubSeq(toks, 4, Len(toks)))
    ELSE <<Head(toks)>> \o GroupPeriod(Tail(toks))

\* group_identifier: every remaining name or quoted name is an Identifier
GroupIdentifier(toks) ==
    [i \in 1..Len(toks) |->
        IF toks[i].cls = "Token" /\ IsNameLike(toks[i])
        THEN Tok("Identifier", "None", toks[i].text, toks[i].real, <<>>)
        ELSE toks[i]]

IsOperand(t) ==
    \/ t.cls \in {"Identifier", "Function", "Parenthesis"}
    \/ t.ttype \in {"Number", "String"}

\* group_comparison: operand = operand
RECURSIVE GroupComparison(_)
GroupComparison(toks) ==
    IF toks = <<>> THEN <<>>
    ELSE LET o == NextNonWs(toks, 1)
             r == IF o = 0 THEN 0 ELSE NextNonWs(toks, o)
         IN  IF IsOperand(toks[1]) /\ r # 0 /\ toks[o].ttype = "Comparison"
                /\ IsOperand(toks[r])
             THEN <<Tok("Comparison", "None", ConcatText(SubSeq(toks, 1, r)),
                        <<>>, <<>>)>>
                  \o GroupComparison(SubSeq(toks, r + 1, Len(toks)))
             ELSE <<Head(toks)>> \o GroupComparison(Tail(toks))

\* get_real_name() of the group "x [AS] y": the first name found in it
FirstName(x, y) == IF x.real # <<>> THEN x.real ELSE y.real

\* group_as: x AS y becomes one Identifier whose real name is that of x
RECURSIVE GroupAs(_)
GroupAs(toks) ==
    IF toks = <<>> THEN <<>>
    ELSE LET a == NextNonWs(toks, 1)
             n == IF a = 0 THEN 0 ELSE NextNonWs(toks, a)
         IN  IF ~IsWs(toks[1]) /\ ~IsKeywordType(toks[1]) /\ n # 0
                /\ IsKeyword(toks[a], "AS")
                /\ toks[n].ttype \notin {"DML", "DDL", "CTE"}
             THEN <<Tok("Identifier", "None", ConcatText(SubSeq(toks, 1, n)),
                        FirstName(toks[1], toks[n]), <<>>)>>
                  \o GroupAs(SubSeq(toks, n + 1, Len(toks)))
             ELSE <<Head(toks)>> \o GroupAs(Tail(toks))

IsAliasBase(t) ==
    \/ t.cls \in {"Parenthesis", "Function", "Identifier", "Comparison"}
    \/ t.ttype = "Number"

\* group_aliased: x y becomes one Identifier whose real name is that of x
RECURSIVE GroupAliased(_)
GroupAliased(toks) ==
    IF toks = <<>> THEN <<>>
    ELSE LET n == NextNonWs(toks, 1)
         IN  IF IsAliasBase(toks[1]) /\ n # 0 /\ toks[n].cls = "Identifier"
             THEN <<Tok("Identifier", "None", ConcatText(SubSeq(toks, 1, n)),
                        FirstName(toks[1], toks[n]), <<>>)>>
                  \o GroupAliased(SubSeq(toks, n + 1, Len(toks)))
             ELSE <<Head(toks)>> \o GroupAliased(Tail(toks))

IsListItem(t) ==
    \/ t.cls \in {"Function", "Identifier", "Comparison"}
    \/ t.ttype \in {"Number", "String", "Name", "Symbol", "Keyword", "DML",
                    "DDL", "CTE", "Wildcard"}

\* index of the last item of the comma-separated list that starts at item i
RECURSIVE ListEnd(_, _)
ListEnd(toks, i) ==
    LET c == NextNonWs(toks, i)
        n == IF c = 0 THEN 0 ELSE NextNonWs(toks, c)
    IN  IF n # 0 /\ IsPunctTok(toks[c], ",") /\ IsListItem(toks[n])
        THEN ListEnd(toks, n)
        ELSE i

\* IdentifierList.get_identifiers(): all but whitespace and commas
ListItems(toks) ==
    SelectSeq(toks, LAMBDA t : ~IsWs(t) /\ ~IsPunctTok(t, ","))

\* group_identifier_list: item , item , ... becomes one IdentifierList
RECURSIVE GroupIdentifierList(_)
GroupIdentifierList(toks) ==
    IF toks = <<>> THEN <<>>
    ELSE IF IsListItem(toks[1]) /\ ListEnd(toks, 1) > 1
    THEN LET j == ListEnd(toks, 1)
         IN  <<Tok("IdentifierList", "None", ConcatText(SubSeq(toks, 1, j)),
                   <<>>, ListItems(SubSeq(toks, 1, j)))>>
             \o GroupIdentifierList(SubSeq(toks, j + 1, Len(toks)))
    ELSE <<Head(toks)>> \o GroupIdentifierList(Tail(toks))

\* the text of the first statement: up to and including the first ';'
\* that is outside a quoted literal
RECURSIVE FirstStatementEnd(_, _)
FirstStatementEnd(toks, i) ==
    IF i > Len(toks) THEN Len(toks)
    ELSE IF IsPunctTok(toks[i], ";") THEN i
    ELSE FirstStatementEnd(toks, i + 1)

\* sqlparse.parse(q)[0].tokens; <<>> when parse returns no statement
ParseFirst(q) ==
    LET lexed == Lex(q)
        stmt == SubSeq(lexed, 1, FirstStatementEnd(lexed, 1))
    IN  GroupIdentifierList(GroupAliased(GroupAs(GroupComparison(
            GroupIdentifier(GroupPeriod(GroupWhere(GroupFunctions(
                GroupParenthesis(stmt)))))))))

\* Statement.get_type() when the first token is WITH
RECURSIVE GetTypeCTE(_, _)
GetTypeCTE(toks, i) ==
    LET j == NextNonWs(toks, i)
        k == IF j = 0 THEN 0 ELSE NextNonWs(toks, j)
    IN  IF j = 0 THEN "UNKNOWN"
        ELSE IF toks[j].cls \in {"Identifier", "IdentifierList"}
        THEN IF k = 0 THEN "UNKNOWN"
             ELSE IF toks[k].ttype = "DML" THEN UpperWord(toks[k].text[1])
             ELSE GetTypeCTE(toks, k)
        ELSE GetTypeCTE(toks, j)

\* Statement.get_type()
get_type(toks) ==
    LET f == IF toks # <<>> /\ IsWs(toks[1]) THEN NextNonWs(toks, 1) ELSE 1
    IN  IF toks = <<>> \/ f = 0 THEN "UNKNOWN"
        ELSE IF toks[f].ttype \in {"DML", "DDL"}
        THEN UpperWord(toks[f].text[1])
        ELSE IF toks[f].ttype = "CTE" THEN GetTypeCTE(toks, f)
        ELSE "UNKNOWN"

(***************************************************************************)
(* SQLValidator (backend/safety/validator.py).                             *)
(***************************************************************************)
FORBIDDEN_KEYWORDS ==
    {"DROP", "DELETE", "TRUNCATE", "ALTER", "UPDATE", "INSERT",
     "GRANT", "REVOKE", "COMMIT", "ROLLBACK", "REPLACE", "MERGE"}

\* Iteration order of a Python set of strings: fixed within one process,
\* chosen by the process's hash seed.  Seed 1 visits the words in the
\* order below, every other seed in the reverse order.
WordOrder ==
    <<"ALTER", "COMMIT", "DELETE", "DROP", "GRANT", "INSERT", "MERGE",
      "REPLACE", "REVOKE", "ROLLBACK", "TRUNCATE", "UPDATE",
      "c", "customers", "hello", "id", "join_date", "p", "products",
      "Products", "s", "sales", "SALES", "updated_at", "world">>

Position(w) ==
    IF \E i \in 1..Len(WordOrder) : WordOrder[i] = w
    THEN CHOOSE i \in 1..Len(WordOrder) : WordOrder[i] = w
    ELSE Len(WordOrder) + 1

\* rank of a text in the iteration order of the given seed
Rank(x, seed) ==
    LET r == IF Len(x) = 1 THEN Position(x[1]) ELSE Len(WordOrder) + 1
    IN  IF seed = 1 THEN r ELSE 0 - r

\* the first element of the non-empty set S of texts that the iteration visits
FirstVisited(S, seed) ==
    CHOOSE x \in S : \A y \in S : Rank(x, seed) <= Rank(y, seed)

None == [none |-> TRUE, text |-> <<>>]

Str(x) == [none |-> FALSE, text |-> x]

\* the words of the vocabulary, in upper case, that hold a forbidden
\* keyword as a proper substring: <<word, keyword>>
KeywordInside == { <<"UPDATED_AT", "UPDATE">> }

\* the search of the keyword without the word boundaries
KeywordFoundAnywhere(keyword, query_upper) ==
    \E i \in 1..Len(query_upper) :
        query_upper[i] = keyword \/ <<query_upper[i], keyword>> \in KeywordInside

\* re.search(r'\b' + keyword + r'\b', query_upper)
KeywordFound(keyword, query_upper) == ContainsAtom(query_upper, keyword)

\* words of the vocabulary, in upper case, that contain the substring JOIN
JoinWords == {"JOIN", "JOIN_DATE"}

\* 'JOIN' in str(token).upper()
ContainsJOIN(t) == \E i \in 1..Len(t.text) : UpperWord(t.text[i]) \in JoinWords

\* words of the vocabulary, in upper case, that begin with WITH
WithPrefixWords == {"WITH"}

\* s.startswith("WITH")
StartsWithWITH(s) == s # <<>> /\ s[1] \in WithPrefixWords

\* SQLValidator._get_table_name; <<>> stands for None
_get_table_name(t) ==
    IF t.cls = "Identifier" THEN t.real ELSE Strip(t.text)

\* SQLValidator._extract_tables, from token i on
RECURSIVE ExtractFrom(_, _, _)
ExtractFrom(toks, i, from_seen) ==
    IF i > Len(toks) THEN {}
    ELSE LET t == toks[i]
         IN  IF from_seen
             THEN (IF t.cls = "IdentifierList"
                   THEN {_get_table_name(t.items[k]) : k \in 1..Len(t.items)}
                   ELSE IF t.cls = "Identifier"
                   THEN {_get_table_name(t)}
                   ELSE {})
                  \cup ExtractFrom(toks, i + 1, FALSE)
             ELSE IF IsKeyword(t, "FROM")
             THEN ExtractFrom(toks, i + 1, TRUE)
             ELSE IF t.cls = "Identifier" /\ ContainsJOIN(t)
             THEN (IF _get_table_name(t) # <<>>
                   THEN {_get_table_name(t)} ELSE {})
                  \cup ExtractFrom(toks, i + 1, FALSE)
             ELSE ExtractFrom(toks, i + 1, FALSE)

\* SQLValidator._extract_tables
_extract_tables(statement) == ExtractFrom(statement, 1, FALSE)

Lower(s) == [i \in 1..Len(s) |-> LowerWord(s[i])]

\* the RBAC table check of validate (lines 112-118): the tables whose
\* visit ends the loop, by a rejection or by table.lower() on None
OffendingTables(tables, accessible_tables) ==
    {t \in tables :
        t = <<>> \/ Lower(t) \notin {Lower(a) : a \in accessible_tables}}

\* the keyword scan with the skip-through granted by the mode alone
KeywordScanModeOnly(query_upper, u, strict_mode, seed) ==
    LET found == {k \in FORBIDDEN_KEYWORDS : KeywordFound(k, query_upper)}
    IN  IF found # {} /\ strict_mode
        THEN Str(<<"Query contains forbidden keyword: ",
                   FirstVisited({<<k>> : k \in found}, seed)[1]>>)
        ELSE None

\* the keyword scan of validate (lines 81-87): None when it passes
KeywordScan(query_upper, u, strict_mode, seed) ==
    LET found == {k \in FORBIDDEN_KEYWORDS : KeywordFound(k, query_upper)}
        allowed == ~strict_mode /\ u.present /\ can_execute_dangerous_query(u)
    IN  IF found # {} /\ ~allowed
        THEN Str(<<"Query contains forbidden keyword: ",
                   FirstVisited({<<k>> : k \in found}, seed)[1]>>)
        ELSE None

\* what a call hands back: the returned pair, or in exc the exception
\* that leaves it (None when it returns)
Result(v, e) == [is_valid |-> v, error |-> e, exc |-> None]

\* raise of an exception with str(e) = x
Raise(x) == [is_valid |-> FALSE, error |-> None, exc |-> Str(x)]

\* an expression nested deeper than the recursion limit of the parser
DeeplyNested == "((((...))))"

\* sqlparse.parse(q) raises (RecursionError, or SQLParseError in the
\* releases that bound the depth themselves)
ParserRaises(q) == ContainsAtom(q, DeeplyNested)

\* the test of the parse result that lets no input count as empty
ParsedIsEmptyNever(q) == FALSE

\* not parsed: sqlparse.parse gives () on the empty text only
ParsedIsEmpty(q) == q = <<>>

\* SQLValidator.ALLOWED_TABLES
ALLOWED_TABLES ==
    {<<"sales">>, <<"customers">>, <<"products">>, <<"orders">>}

\* the try block with the tables of a call without a user held against
\* ALLOWED_TABLES
TryBlockAllowedTables(q, query_upper, u, seed) ==
    LET statement == ParseFirst(q)
        stmt_type == get_type(statement)
        tables == _extract_tables(statement)
        accessible_tables ==
            IF u.present THEN get_accessible_tables(u) ELSE ALLOWED_TABLES
        offending == OffendingTables(tables, accessible_tables)
    IN  IF ParserRaises(q)
        THEN Raise(<<"maximum recursion depth exceeded">>)
        ELSE IF ParsedIsEmpty(q)
        THEN Result(FALSE, Str(<<"Could not parse SQL query">>))
        ELSE IF stmt_type \notin {"SELECT", "UNKNOWN"}
                /\ ~StartsWithWITH(Strip(query_upper))
        THEN Result(FALSE, Str(<<"Only SELECT queries are allowed (got ",
                                 stmt_type, ")">>))
        ELSE IF <<"*">> \notin accessible_tables /\ offending # {}
        THEN LET table == FirstVisited(offending, seed)
             IN  IF table = <<>>
                 THEN Raise(<<"'NoneType' object has no attribute 'lower'">>)
                 ELSE Result(FALSE,
                          Str(<<"User does not have access to table: ">>
                              \o table))
        ELSE Result(TRUE, None)

\* the body of the try block of validate (lines 95-118), on the stripped
\* query; what falls through it reaches return True, None (line 123)
TryBlock(q, query_upper, u, seed) ==
    LET statement == ParseFirst(q)
        stmt_type == get_type(statement)
        tables == _extract_tables(statement)
        accessible_tables == get_accessible_tables(u)
        offending == OffendingTables(tables, accessible_tables)
    IN  IF ParserRaises(q)
        THEN Raise(<<"maximum recursion depth exceeded">>)
        ELSE IF ParsedIsEmpty(q)
        THEN Result(FALSE, Str(<<"Could not parse SQL query">>))
        ELSE IF stmt_type \notin {"SELECT", "UNKNOWN"}
                /\ ~StartsWithWITH(Strip(query_upper))
        THEN Result(FALSE, Str(<<"Only SELECT queries are allowed (got ",
                                 stmt_type, ")">>))
        ELSE IF u.present /\ <<"*">> \notin accessible_tables
                /\ offending # {}
        THEN LET table == FirstVisited(offending, seed)
             IN  IF table = <<>>
                 THEN Raise(<<"'NoneType' object has no attribute 'lower'">>)
                 ELSE Result(FALSE,
                          Str(<<"User does not have access to table: ">>
                              \o table))
        ELSE Result(TRUE, None)

\* a handler that lets the exception pass
ExceptReraise(o) == o

\* except Exception as e: return False, f"SQL parsing error: {str(e)}"
Except(o) ==
    IF o.exc.none THEN o
    ELSE Result(FALSE, Str(<<"SQL parsing error: ">> \o o.exc.text))

\* steps 3 to 5 of validate (lines 94-123), on the stripped query
ParseAndCheck(q, query_upper, u, seed) ==
    Except(TryBlock(q, query_upper, u, seed))

\* validate with the statement count tested before the keyword scan
validate_split_first(q0, u, given, mode, seed) ==
    LET strict_mode == IF given = "unset" THEN mode = "strict"
                       ELSE given = "true"
        query_upper == Upper(q0)
        q == Strip(q0)
        scan == KeywordScan(query_upper, u, strict_mode, seed)
        stripped_query == RStripSemicolons(q)
    IN  IF ContainsAtom(stripped_query, ";")
        THEN Result(FALSE, Str(<<"Multiple statements", " are not allowed">>))
        ELSE IF ~scan.none THEN Result(FALSE, scan)
        ELSE ParseAndCheck(q, query_upper, u, seed)

\* SQLValidator.validate(query, user, strict_mode); given is "unset"
\* for strict_mode = None, mode is settings.SAFETY_MODE
validate(q0, u, given, mode, seed) ==
    LET strict_mode == IF given = "unset" THEN mode = "strict"
                       ELSE given = "true"
        query_upper == Upper(q0)
        q == Strip(q0)
        scan == KeywordScan(query_upper, u, strict_mode, seed)
        stripped_query == RStripSemicolons(q)
    IN  IF ~scan.none THEN Result(FALSE, scan)
        ELSE IF ContainsAtom(stripped_query, ";")
        THEN Result(FALSE, Str(<<"Multiple statements", " are not allowed">>))
        ELSE ParseAndCheck(q, query_upper, u, seed)

\* validate_or_raise with the test of is_valid inverted
validate_or_raise_inverted(q0, u, mode, seed) ==
    LET r == validate(q0, u, "unset", mode, seed)
    IN  IF r.is_valid
        THEN Str(<<"Security violation: ">> \o r.error.text)
        ELSE None

\* SQLValidator.validate_or_raise: the SecurityError raised, None if none
validate_or_raise(q0, u, mode, seed) ==
    LET r == validate(q0, u, "unset", mode, seed)
    IN  IF ~r.is_valid
        THEN Str(<<"Security violation: ">> \o r.error.text)
        ELSE None

\* SQLValidationResult(is_valid, error_message, blocked_reason,
\* tables_accessed); exc is the exception that leaves the call instead
SQLValidationResult(v, e, b, t) ==
    [is_valid |-> v, error_message |-> e, blocked_reason |-> b,
     policy_violated |-> None, tables_accessed |-> t, exc |-> None]

\* SQLValidator.validate_with_details(query, user): the statement is parsed
\* again from the query as given, and whatever that raises is passed over
validate_with_details(q0, u, mode, seed) ==
    LET r == validate(q0, u, "unset", mode, seed)
        tables_accessed ==
            IF r.is_valid /\ ~ParserRaises(q0) /\ Strip(q0) # <<>>
            THEN _extract_tables(ParseFirst(q0))
            ELSE {}
    IN  IF ~r.exc.none
        THEN [SQLValidationResult(FALSE, None, None, {}) EXCEPT !.exc = r.exc]
        ELSE SQLValidationResult(r.is_valid, r.error,
                 IF ~r.is_valid THEN r.error ELSE None, tables_accessed)

(***************************************************************************)
(* Inputs: the queries, callers and settings the validator is run on.      *)
(***************************************************************************)
MaxTrailing == 2

MaxRoles == 1

\* words joined by single spaces
RECURSIVE Sp(_)
Sp(ws) ==
    IF Len(ws) <= 1 THEN ws ELSE <<Head(ws), " ">> \o Sp(Tail(ws))

Projections ==
    { <<"*">>, <<"id">>, <<"updated_at">>, <<"join_date">>,
      <<"SUM", "(", "SALES", ")">> }

TableRefs ==
    { <<"sales">>, <<"products">>, <<"customers">>, <<"Products">>,
      <<"sales", ",", " ", "products">>,
      Sp(<<"sales", "AS", "s", "JOIN", "products", "AS", "p", "ON">>)
          \o <<" ", "s", ".", "id", " ", "=", " ", "p", ".", "id">> }

Tails ==
    { <<>>,
      <<" ">> \o Sp(<<"WHERE", "YEAR_ID", "=", "2003">>),
      <<" ">> \o Sp(<<"LIMIT", "10">>),
      <<" ">> \o Sp(<<"WHERE", "STATUS", "=">>) \o <<" ", "'", "DROP", "'">>,
      <<" ">> \o Sp(<<"WHERE", "STATUS", "=">>) \o <<" ", "'", ";", "'">> }

\* SELECT statements: every projection over sales, and the wildcard over
\* every table reference with every tail
SelectCores ==
    { <<"SELECT", " ">> \o pr \o <<" ", "FROM", " ", "sales">> :
          pr \in Projections }
    \cup { Sp(<<"SELECT", "*", "FROM">>) \o <<" ">> \o tr \o tl :
              tr \in TableRefs, tl \in Tails }

UpdateShipped ==
    Sp(<<"UPDATE", "sales", "SET">>)
    \o <<" ", "STATUS", "=", "'", "Shipped", "'", " ">>
    \o <<"WHERE", " ", "ORDERNUMBER", "=", "1">>

CteSelect ==
    Sp(<<"WITH", "c", "AS">>)
    \o <<" ", "(">> \o Sp(<<"SELECT", "*", "FROM", "sales">>) \o <<")", " ">>

OtherCores ==
    { <<>>,
      Sp(<<"DROP", "TABLE", "sales">>),
      Sp(<<"drop", "table", "sales">>),
      Sp(<<"Drop", "TABLE", "products">>),
      Sp(<<"DELETE", "FROM", "sales", "WHERE", "id", "=", "1">>),
      Sp(<<"DELETE", "FROM", "products">>),
      Sp(<<"UPDATE", "sales", "SET", "price", "=", "100", "WHERE", "id",
           "=", "1">>),
      UpdateShipped,
      Sp(<<"GRANT", "SELECT", "ON", "sales", "TO", "bob">>),
      CteSelect \o Sp(<<"SELECT", "*", "FROM", "c">>),
      CteSelect \o Sp(<<"DELETE", "FROM", "sales">>),
      Sp(<<"hello", "world">>),
      Sp(<<"select", "*", "from", "products">>),
      <<"SELECT", " ", "*", " ", "FROM", "\"", "products", "\"">>,
      <<" ">> \o Sp(<<"SELECT", "*", "FROM", "sales">>),
      <<" ">>,
      Sp(<<"SELECT", "*", "FROM", "sales", "WHERE", "YEAR_ID", "=", "2004">>),
      Sp(<<"DELETE", "FROM", "sales", "WHERE", "STATUS", "=">>)
          \o <<" ", "'", "DROP", "'">>,
      Sp(<<"SELECT", "*", "FROM", "sales", "WHERE", "id", "IN">>)
          \o <<" ", DeeplyNested>> }

Cores == SelectCores \cup OtherCores

\* what follows a single statement: separators and whitespace
Separators ==
    { [i \in 1..n |-> ";"] : n \in 0..MaxTrailing } \cup { <<";", " ">> }

\* a second statement stacked behind the first
Stacked ==
    { <<";", " ">> \o Sp(<<"DROP", "TABLE", "sales">>) \o <<";">>,
      <<";", " ">> \o Sp(<<"SELECT", "*", "FROM", "products">>),
      <<";", " ", ";">> }

StackBases ==
    { Sp(<<"SELECT", "*", "FROM", "sales">>),
      Sp(<<"DROP", "TABLE", "sales">>),
      Sp(<<"hello", "world">>) }

Queries ==
    { c \o t : c \in Cores, t \in Separators }
    \cup { c \o t : c \in StackBases, t \in Stacked }

Users ==
    {NoUser}
    \cup { MkUser(rs, FALSE) :
             rs \in {x \in SUBSET RoleEnum : Cardinality(x) <= MaxRoles} }
    \cup { MkUser({}, TRUE) }

SafetyModes == {"strict", "moderate", "permissive"}

StrictArgs == {"unset", "true", "false"}

HashSeeds == {1, 2}

NoResult == Result(FALSE, None)

NoDetails == SQLValidationResult(FALSE, None, None, {})

NoAnswer == [kind |-> "none"]

\* no request is being served
NoRequest ==
    [endpoint |-> "none", dry_run |-> FALSE, cache |-> None,
     step |-> "idle", generated_sql |-> <<>>, verdict |-> "none",
     executed |-> <<>>, response |-> "none"]

\* the column access calls take no part in a validator call
AccessIdle ==
    /\ role_arg = "VIEWER"
    /\ mode_arg = "moderate"
    /\ column_policies = COLUMN_ACCESS_POLICIES
    /\ api = NoRequest
    /\ table_arg = <<>>
    /\ columns_arg = <<>>
    /\ answer = NoAnswer

Init ==
    /\ safety_mode \in SafetyModes
    /\ hash_seed \in HashSeeds
    /\ query \in Queries
    /\ user \in Users
    /\ strict_arg \in StrictArgs
    /\ pc = "ready"
    /\ result = NoResult
    /\ raised = None
    /\ details = NoDetails
    /\ AccessIdle

\* a call of SQLValidator.validate(query, user, strict_mode)
CallValidate ==
    /\ pc = "ready"
    /\ result' = validate(query, user, strict_arg, safety_mode, hash_seed)
    /\ pc' = "validated"
    /\ UNCHANGED <<callArgs, raised, details, accessVars>>

\* a call of SQLValidator.validate_or_raise(query, user)
CallValidateOrRaise ==
    /\ pc = "ready"
    /\ strict_arg = "unset"
    /\ raised' = validate_or_raise(query, user, safety_mode, hash_seed)
    /\ pc' = "or_raise_done"
    /\ UNCHANGED <<callArgs, result, details, accessVars>>

\* a call of SQLValidator.validate_with_details(query, user)
CallValidateWithDetails ==
    /\ pc = "ready"
    /\ strict_arg = "unset"
    /\ details' = validate_with_details(query, user, safety_mode, hash_seed)
    /\ pc' = "details_done"
    /\ UNCHANGED <<callArgs, result, raised, accessVars>>

\* the fragments of the validator's messages that hold, in lower case, a
\* phrase explain_rejection looks for: <<fragment, phrase>>
PhraseTable == { <<"Multiple statements", "multiple statements">> }

\* phrase in reason.lower()
PhraseIn(phrase, reason) ==
    \E i \in 1..Len(reason) : <<reason[i], phrase>> \in PhraseTable

\* SafetyExplainer.explain_rejection(reason, policy): the sentence chosen
\* and the values it is filled with
explain_rejection(reason, policy) ==
    IF PhraseIn("forbidden command", reason)
    THEN [template |-> "command not allowed in mode",
          names |-> <<policy.mode, policy.allowed_commands>>]
    ELSE IF PhraseIn("table access denied", reason)
    THEN [template |-> "no permission to access tables", names |-> <<>>]
    ELSE IF PhraseIn("multiple statements", reason)
    THEN [template |-> "multiple statements blocked against injection",
          names |-> <<>>]
    ELSE IF PhraseIn("row limit", reason)
    THEN [template |-> "too many rows", names |-> <<policy.max_rows>>]
    ELSE [template |-> "blocked by the safety engine", names |-> <<reason>>]

\* a call of SafetyExplainer.explain_rejection on the message of the
\* rejection validate returned and the policy of the mode in force
CallExplainRejection ==
    /\ pc = "validated"
    /\ ~result.is_valid
    /\ strict_arg = "unset"
    /\ answer' =
          [kind |-> "explanation",
           value |-> explain_rejection(result.error.text,
                                       get_policy(safety_mode))]
    /\ pc' = "explained"
    /\ UNCHANGED <<callArgs, result, raised, details,
                   role_arg, table_arg, columns_arg, mode_arg,
                   column_policies, api>>

Next ==
    \/ CallValidate
    \/ CallValidateOrRaise
    \/ CallValidateWithDetails
    \/ CallExplainRejection

Spec == Init /\ [][Next]_vars

(***************************************************************************)
(* The table and column resolvers and the column checks, called on their   *)
(* own: RBACService on a user, AccessControlService on one role.           *)
(***************************************************************************)
MaxRoleSet == 2

AccessUsers ==
    { MkUser(rs, FALSE) :
        rs \in {x \in SUBSET RoleEnum : Cardinality(x) <= MaxRoleSet} }

TableNames ==
    {"sales", "customers", "Customers", "users", "salaries", "orders"}

ColumnNames ==
    {"email", "phone", "Phone", "city", "City", "credit_limit", "amount",
     "customername"}

RequestedColumns ==
    {<<>>}
    \cup { <<c>> : c \in ColumnNames }
    \cup { <<c, "city">> : c \in ColumnNames }
    \cup { <<"city", c>> : c \in ColumnNames }

Answer(k, v) == [kind |-> k, value |-> v]

InitAccess ==
    /\ safety_mode \in SafetyModes
    /\ hash_seed = 1
    /\ query = <<>>
    /\ user \in AccessUsers
    /\ strict_arg = "unset"
    /\ pc = "ready"
    /\ result = NoResult
    /\ raised = None
    /\ details = NoDetails
    /\ role_arg \in RoleEnum
    /\ mode_arg = "moderate"
    /\ column_policies = COLUMN_ACCESS_POLICIES
    /\ api = NoRequest
    /\ table_arg \in TableNames
    /\ columns_arg \in RequestedColumns
    /\ answer = NoAnswer

\* what a resolver or check call leaves alone
AccessCallFrame ==
    /\ pc' = "answered"
    /\ UNCHANGED <<callArgs, result, raised, details,
                   role_arg, table_arg, columns_arg, mode_arg,
                   column_policies, api>>

\* a call of RBACService.get_accessible_tables(user)
CallGetAccessibleTables ==
    /\ pc = "ready"
    /\ answer' = Answer("tables", get_accessible_tables(user))
    /\ AccessCallFrame

\* a call of RBACService.get_accessible_columns(user, table_name)
CallGetAccessibleColumns ==
    /\ pc = "ready"
    /\ answer' = Answer("columns", get_accessible_columns(user, table_arg))
    /\ AccessCallFrame

\* a call of AccessControlService.get_allowed_columns(role, table)
CallGetAllowedColumns ==
    /\ pc = "ready"
    /\ answer' = Answer("allowed", get_allowed_columns(role_arg, table_arg))
    /\ AccessCallFrame

\* a call of AccessControlService.is_column_access_allowed(role, table,
\* column), the column being the first one requested
CallIsColumnAccessAllowed ==
    /\ pc = "ready"
    /\ columns_arg # <<>>
    /\ answer' = Answer("check",
           is_column_access_allowed(role_arg, table_arg, columns_arg[1]))
    /\ AccessCallFrame

\* a call of AccessControlService.filter_query_columns(role, table,
\* requested_columns)
CallFilterQueryColumns ==
    /\ pc = "ready"
    /\ answer' = Answer("filter",
           filter_query_columns(role_arg, table_arg, columns_arg))
    /\ AccessCallFrame

NextAccess ==
    \/ CallGetAccessibleTables
    \/ CallGetAccessibleColumns
    \/ CallGetAllowedColumns
    \/ CallIsColumnAccessAllowed
    \/ CallFilterQueryColumns

SpecAccess == InitAccess /\ [][NextAccess]_vars

(***************************************************************************)
(* The static registries looked up on their own: get_policy on a mode      *)
(* name, get_user_permissions on a user whose role names may be unknown.   *)
(***************************************************************************)
ModeNames ==
    {"strict", "STRICT", "Strict", "permissive", "PERMISSIVE", "Permissive",
     "moderate", "MODERATE", "paranoid", "strcit", ""}

\* role names as stored with a user: those of RoleEnum and others
RoleNames == RoleEnum \cup {"GUEST", "admin"}

RegistryUsers == { MkUser(rs, FALSE) : rs \in SUBSET RoleNames }

InitRegistry ==
    /\ safety_mode = "strict"
    /\ hash_seed = 1
    /\ query = <<>>
    /\ user \in RegistryUsers
    /\ strict_arg = "unset"
    /\ pc = "ready"
    /\ result = NoResult
    /\ raised = None
    /\ details = NoDetails
    /\ role_arg = "VIEWER"
    /\ table_arg = <<>>
    /\ columns_arg = <<>>
    /\ mode_arg \in ModeNames
    /\ column_policies = COLUMN_ACCESS_POLICIES
    /\ api = NoRequest
    /\ answer = NoAnswer

\* a call of get_policy(mode)
CallGetPolicy ==
    /\ pc = "ready"
    /\ answer' = Answer("policy", get_policy(mode_arg))
    /\ AccessCallFrame

\* a call of RBACService.get_user_permissions(user)
CallGetUserPermissions ==
    /\ pc = "ready"
    /\ answer' = Answer("permissions", get_user_permissions(user))
    /\ AccessCallFrame

NextRegistry == CallGetPolicy \/ CallGetUserPermissions

SpecRegistry == InitRegistry /\ [][NextRegistry]_vars

(***************************************************************************)
(* The two query endpoints: POST /query of api/routes.py and POST /query/   *)
(* of api/routers/query.py, one request each. query is the text the LLM    *)
(* answers with.                                                           *)
(***************************************************************************)
\* the markdown fence that opens a block of sql, and the bare fence
Fences == {"<fence>sql", "<fence>"}

\* what the LLM answers with
LlmAnswers ==
    { Sp(<<"SELECT", "*", "FROM", "sales">>),
      <<"<fence>sql", " ">> \o Sp(<<"SELECT", "*", "FROM", "sales", "LIMIT", "10">>)
          \o <<" ", "<fence>">>,
      Sp(<<"SELECT", "*", "FROM", "products">>) \o <<";">>,
      Sp(<<"DROP", "TABLE", "sales">>),
      Sp(<<"SELECT", "*", "FROM", "sales">>) \o <<";", " ">>
          \o Sp(<<"DROP", "TABLE", "sales">>) \o <<";">>,
      Sp(<<"hello", "world">>),
      <<>> }

\* generated_sql.replace(fence + "sql", "").replace(fence, "").strip()
Clean(s) ==
    LET kept(a) == a \notin Fences
    IN  Strip(SelectSeq(s, kept))

\* llm_cache.get(question, provider): None, or the text an earlier request
\* stored
CacheStates == {None} \cup { Str(Clean(a)) : a \in LlmAnswers }

InitApi ==
    /\ safety_mode \in SafetyModes
    /\ hash_seed \in HashSeeds
    /\ query \in LlmAnswers
    /\ user \in { MkUser({r}, FALSE) : r \in RoleEnum }
    /\ strict_arg = "unset"
    /\ pc = "ready"
    /\ result = NoResult
    /\ raised = None
    /\ details = NoDetails
    /\ role_arg = "VIEWER"
    /\ table_arg = <<>>
    /\ columns_arg = <<>>
    /\ answer = NoAnswer
    /\ mode_arg = "moderate"
    /\ column_policies = COLUMN_ACCESS_POLICIES
    /\ \E e \in {"/query", "/query/"}, d \in BOOLEAN, c \in CacheStates :
          /\ e = "/query" => (~d /\ c = None)
          /\ api = [NoRequest EXCEPT !.endpoint = e, !.dry_run = d,
                                     !.cache = c, !.step = "start"]

ApiFrame ==
    UNCHANGED <<callArgs, pc, result, raised, details, role_arg, table_arg,
                columns_arg, answer, mode_arg, column_policies>>

\* process_query, step 1: the LLM's answer, cleaned
RoutesGenerate ==
    /\ api.endpoint = "/query"
    /\ api.step = "start"
    /\ api' = [api EXCEPT !.generated_sql = Clean(query), !.step = "generated"]
    /\ ApiFrame

\* process_query, step 2: SQLValidator.validate(generated_sql), no user
RoutesValidate ==
    /\ api.endpoint = "/query"
    /\ api.step = "generated"
    /\ LET r == validate(api.generated_sql, NoUser, "unset", safety_mode,
                         hash_seed)
       IN  api' = IF r.is_valid
                  THEN [api EXCEPT !.verdict = "accepted", !.step = "validated"]
                  ELSE [api EXCEPT !.verdict = "rejected", !.step = "done",
                                   !.response = "Safety Violation"]
    /\ ApiFrame

\* process_query, step 3: execute_sql_query(generated_sql), which returns
\* rows or raises QueryExecutionError
RoutesExecute ==
    /\ api.endpoint = "/query"
    /\ api.step = "validated"
    /\ \E outcome \in {"results", "Execution Error"} :
          api' = [api EXCEPT !.executed = Append(@, api.generated_sql),
                             !.step = "done", !.response = outcome]
    /\ ApiFrame

\* process_natural_language_query, steps 1 and 2: the cached text if the
\* cache holds a non-empty one, else the LLM's answer, cleaned and cached
RouterObtainSql ==
    /\ api.endpoint = "/query/"
    /\ api.step = "start"
    /\ api' = IF ~api.cache.none /\ api.cache.text # <<>>
              THEN [api EXCEPT !.generated_sql = api.cache.text,
                               !.step = "generated"]
              ELSE [api EXCEPT !.generated_sql = Clean(query),
                               !.cache = Str(Clean(query)),
                               !.step = "generated"]
    /\ ApiFrame

\* process_natural_language_query, step 3: SQLValidator(current_user)
\* raises TypeError, the class taking no arguments; the handler answers 500
RouterValidate ==
    /\ api.endpoint = "/query/"
    /\ api.step = "generated"
    /\ api' = [api EXCEPT !.step = "done", !.response = "500"]
    /\ ApiFrame

NextApi ==
    \/ RoutesGenerate
    \/ RoutesValidate
    \/ RoutesExecute
    \/ RouterObtainSql
    \/ RouterValidate

SpecApi == InitApi /\ [][NextApi]_vars

(***************************************************************************)
(* COLUMN_ACCESS_POLICIES as the object the process shares: one caller     *)
(* takes the allowed columns of a role and table, may write to the set it  *)
(* was handed, and a later caller asks for a column of the same table.     *)
(***************************************************************************)
InitShared ==
    /\ safety_mode = "strict"
    /\ hash_seed = 1
    /\ query = <<>>
    /\ user = NoUser
    /\ strict_arg = "unset"
    /\ pc = "ready"
    /\ result = NoResult
    /\ raised = None
    /\ details = NoDetails
    /\ role_arg \in RoleEnum
    /\ table_arg \in TableNames
    /\ columns_arg \in { <<c>> : c \in ColumnNames }
    /\ mode_arg = "moderate"
    /\ column_policies = COLUMN_ACCESS_POLICIES
    /\ api = NoRequest
    /\ answer = NoAnswer

\* the set returned is the one stored in COLUMN_ACCESS_POLICIES
\* (return role_policy[table]), or a new {"*"}
ReturnsStoredSet(policies, role, table) ==
    role # "ADMIN" /\ \E e \in policies : e[1] = role /\ e[2] = table

\* a call of get_allowed_columns(role, table); held tells whether the
\* caller now holds the stored set itself
SharedGetAllowedColumns ==
    /\ pc = "ready"
    /\ answer' =
          [kind |-> "allowed",
           value |-> get_allowed_columns_of(column_policies, role_arg, table_arg),
           held |-> ReturnsStoredSet(column_policies, role_arg, table_arg)]
    /\ pc' = "holding"
    /\ UNCHANGED <<callArgs, result, raised, details,
                   role_arg, table_arg, columns_arg, mode_arg, column_policies, api>>

\* the caller adds a column to the set it was handed: allowed.add(c)
CallerAddsColumn ==
    /\ pc = "holding"
    /\ answer.held
    /\ \E c \in ColumnNames :
          column_policies' =
              { IF e[1] = role_arg /\ e[2] = table_arg
                THEN <<e[1], e[2], e[3] \cup {c}>> ELSE e :
                  e \in column_policies }
    /\ pc' = "written"
    /\ UNCHANGED <<callArgs, result, raised, details,
                   role_arg, table_arg, columns_arg, mode_arg, answer,
                   api>>

\* a later call of is_column_access_allowed(role, table, column)
SharedIsColumnAccessAllowed ==
    /\ pc \in {"holding", "written"}
    /\ answer' = Answer("check",
           is_column_access_allowed_of(column_policies, role_arg, table_arg,
                                       columns_arg[1]))
    /\ pc' = "checked"
    /\ UNCHANGED <<callArgs, result, raised, details,
                   role_arg, table_arg, columns_arg, mode_arg, column_policies, api>>

NextShared ==
    \/ SharedGetAllowedColumns
    \/ CallerAddsColumn
    \/ SharedIsColumnAccessAllowed

SpecShared == InitShared /\ [][NextShared]_vars

(***************************************************************************)
(* Vocabulary of the properties.                                           *)
(***************************************************************************)
Validated == pc = "validated"

\* the mode is the one of the settings (no strict_mode override)
ModeFromSettings == strict_arg = "unset"

ErrorStarts(r, frag) ==
    ~r.error.none /\ Len(r.error.text) >= 1 /\ r.error.text[1] = frag

ErrorContains(r, frag) ==
    ~r.error.none /\ \E i \in 1..Len(r.error.text) : r.error.text[i] = frag

AccessDenied(r) == ErrorStarts(r, "User does not have access to table: ")

\* rejected by the keyword scan, the statement count, the parser or the
\* statement type
RejectedBeforeTables(r) ==
    \/ ErrorStarts(r, "Query contains forbidden keyword: ")
    \/ ErrorStarts(r, "Multiple statements")
    \/ ErrorStarts(r, "Could not parse SQL query")
    \/ ErrorStarts(r, "Only SELECT queries are allowed (got ")

\* a ';' outside any quoted literal is followed by content that is neither
\* whitespace nor a separator
HasStackedStatement(q) ==
    LET toks == Lex(q)
    IN  \E i \in 1..Len(toks) : \E j \in (i + 1)..Len(toks) :
            /\ IsPunctTok(toks[i], ";")
            /\ ~IsWs(toks[j])
            /\ ~IsPunctTok(toks[j], ";")

ForbiddenWordsIn(q) ==
    {k \in FORBIDDEN_KEYWORDS : \E i \in 1..Len(q) : UpperWord(q[i]) = k}

MayExecuteDangerous(u) == u.present /\ can_execute_dangerous_query(u)

\* the names that follow token i of a FROM or JOIN clause: a name, then
\* further names after commas
RECURSIVE NamesAt(_, _)
NamesAt(toks, i) ==
    IF i = 0 \/ ~IsNameLike(toks[i]) THEN {}
    ELSE LET c == NextNonWs(toks, i)
         IN  {toks[i].real}
             \cup (IF c # 0 /\ IsPunctTok(toks[c], ",")
                   THEN NamesAt(toks, NextNonWs(toks, c))
                   ELSE {})

\* the tables a query names after FROM and JOIN
TablesNamed(q) ==
    LET toks == Lex(q)
    IN  UNION { NamesAt(toks, NextNonWs(toks, i)) :
                  i \in {k \in 1..Len(toks) :
                           IsKeyword(toks[k], "FROM")
                           \/ IsKeyword(toks[k], "JOIN")} }

\* a plain single SELECT: no forbidden word, no second statement, no CTE
PlainSelect(q) ==
    /\ ForbiddenWordsIn(q) = {}
    /\ ~ContainsAtom(RStripSemicolons(Strip(q)), ";")
    /\ Strip(q) # <<>>
    /\ UpperWord(Strip(q)[1]) = "SELECT"

\* the projection is a wildcard without a qualifier
HasUnqualifiedWildcard(q) ==
    LET toks == Lex(q)
    IN  \E i \in 1..Len(toks) :
            /\ toks[i].ttype = "Wildcard"
            /\ (i = 1 \/ ~IsPunctTok(toks[i - 1], "."))

HasWhereClause(q) ==
    LET toks == Lex(q)
    IN  \E i \in 1..Len(toks) : IsKeyword(toks[i], "WHERE")

\* the statement type the validator classifies the query by
StatementType(q) == get_type(ParseFirst(Strip(q)))

DropTableSales == Sp(<<"DROP", "TABLE", "sales">>) \o <<";">>

SelectSalesLimit ==
    Sp(<<"SELECT", "*", "FROM", "sales", "LIMIT", "10">>) \o <<";">>

(***************************************************************************)
(* The claims.                                                             *)
(***************************************************************************)

\* C1: every input with a top-level ';' followed by non-whitespace content
\* is rejected by validate with the multiple-statements reason, whatever
\* the mode and the caller.
C1_StackedRejectedAsMultiple ==
    Validated /\ HasStackedStatement(query)
        => ~result.is_valid /\ ErrorContains(result, "Multiple statements")

\* C2: an input with a forbidden keyword as a whole word is accepted only
\* when the mode is Permissive and the caller may execute dangerous
\* queries.
C2_ForbiddenNeedsPermissiveAndCapability ==
    Validated /\ ModeFromSettings /\ ForbiddenWordsIn(query) # {}
              /\ ~(safety_mode = "permissive" /\ MayExecuteDangerous(user))
        => ~result.is_valid

\* C3: a query that names, after FROM or JOIN, a table outside the caller's
\* accessible tables (not "all tables"; names compared without case) is
\* rejected, with the access-denied reason unless an earlier gate rejected it.
C3_InaccessibleTableRejected ==
    Validated /\ user.present /\ <<"*">> \notin get_accessible_tables(user)
              /\ Strip(query) # <<>> /\ UpperWord(Strip(query)[1]) # "WITH"
              /\ (\E t \in TablesNamed(query) :
                     Lower(t) \notin
                         {Lower(a) : a \in get_accessible_tables(user)})
        => ~result.is_valid
           /\ (RejectedBeforeTables(result) \/ AccessDenied(result))

\* C4: a statement whose type is not in the allowed_commands of the active
\* policy, UNKNOWN included, is rejected.
C4_DisallowedCommandRejected ==
    Validated /\ ModeFromSettings
              /\ StatementType(query)
                     \notin get_policy(safety_mode).allowed_commands
        => ~result.is_valid

\* C5: a plain SELECT with an unqualified wildcard over a table whose column
\* policy for the caller's role is a proper whitelist is rejected.
C5_WildcardOverWhitelistRejected ==
    Validated /\ user.present /\ PlainSelect(query)
              /\ HasUnqualifiedWildcard(query)
              /\ (\E r \in user.roles : \E t \in TablesNamed(query) :
                     Len(t) = 1 /\ "*" \notin get_allowed_columns(r, t[1]))
        => ~result.is_valid

\* C6: under a policy with required_where_clause (Strict) a plain SELECT
\* without a WHERE clause is rejected.
C6_StrictRequiresWhere ==
    Validated /\ ModeFromSettings /\ PlainSelect(query)
              /\ get_policy(safety_mode).required_where_clause
              /\ ~HasWhereClause(query)
        => ~result.is_valid

\* C7: in Permissive mode an ADMIN caller's
\* UPDATE sales SET STATUS='Shipped' WHERE ORDERNUMBER=1; is accepted.
C7_PermissiveAdminUpdateAccepted ==
    Validated /\ ModeFromSettings /\ safety_mode = "permissive"
              /\ has_role(user, "ADMIN")
              /\ query = UpdateShipped \o <<";">>
        => result.is_valid

\* C8: validate without a user rejects a statement whose leading command is
\* a forbidden keyword K and that holds no other forbidden keyword, and the
\* error message names K.
C8_ForbiddenCommandNamed ==
    Validated /\ ~user.present /\ Strip(query) # <<>>
              /\ ForbiddenWordsIn(query) = {UpperWord(Strip(query)[1])}
        => /\ ~result.is_valid
           /\ ErrorContains(result, UpperWord(Strip(query)[1]))

C8_Witness ==
    /\ Validated /\ ~user.present /\ query = DropTableSales
    /\ result = Result(FALSE, Str(<<"Query contains forbidden keyword: ",
                                    "DROP">>))

\* C9: when validate accepts a query, the error value it returns is the
\* empty string.
C9_AcceptedErrorIsEmptyString ==
    Validated /\ result.is_valid => result.error = Str(<<>>)

\* C10: validate_or_raise raises SecurityError exactly when validate rejects
\* the query; under the default settings it returns for
\* SELECT * FROM sales LIMIT 10; and raises for DROP TABLE sales;
C10_RaisesIffInvalid ==
    pc = "or_raise_done"
        => /\ raised.none
              <=> validate(query, user, "unset", safety_mode,
                           hash_seed).is_valid
           /\ ~raised.none => raised.text[1] = "Security violation: "
           /\ safety_mode = "strict" /\ ~user.present
                  /\ query = SelectSalesLimit
              => raised.none
           /\ safety_mode = "strict" /\ ~user.present
                  /\ query = DropTableSales
              => ~raised.none

C10_Witness ==
    /\ pc = "or_raise_done" /\ safety_mode = "strict" /\ ~user.present
    /\ query = DropTableSales
    /\ raised = Str(<<"Security violation: ",
                      "Query contains forbidden keyword: ", "DROP">>)

SelectSales2004 ==
    Sp(<<"SELECT", "*", "FROM", "sales", "WHERE", "YEAR_ID", "=", "2004">>)

Detailed == pc = "details_done"

OnlyRole(u, r) == u.present /\ u.roles = {r} /\ ~u.is_superuser

\* C11: in strict mode a caller whose only role is VIEWER has the query
\* SELECT * FROM sales WHERE YEAR_ID = 2004 accepted by validate_with_details
\* with tables_accessed = {sales}; and whenever a query is accepted,
\* tables_accessed is the set of tables the query names.
C11_DetailsReportTablesAccessed ==
    /\ (Detailed /\ safety_mode = "strict" /\ OnlyRole(user, "VIEWER")
            /\ query = SelectSales2004)
         => (details.is_valid /\ details.tables_accessed = {<<"sales">>})
    /\ (Detailed /\ details.is_valid)
         => details.tables_accessed = TablesNamed(query)

SelectProducts == Sp(<<"SELECT", "*", "FROM", "products">>)

AnalystModerateProducts ==
    /\ Validated
    /\ ModeFromSettings
    /\ safety_mode = "moderate"
    /\ OnlyRole(user, "ANALYST")
    /\ query = SelectProducts

\* C12 as stated: in moderate mode a caller whose only role is ANALYST has
\* the accessible tables {sales, customers}, and SELECT * FROM products is
\* rejected with the access-denied reason.
C12_AnalystProductsDenied ==
    AnalystModerateProducts
        => /\ get_accessible_tables(user) = {<<"sales">>, <<"customers">>}
           /\ ~result.is_valid
           /\ AccessDenied(result)

\* C12 amended: in moderate mode a caller whose only role is ANALYST has the
\* accessible tables {sales, customers, products, orders}, and
\* SELECT * FROM products is accepted, products being one of them.
C12_AnalystProductsAccepted ==
    AnalystModerateProducts
        => /\ get_accessible_tables(user)
                = {<<"sales">>, <<"customers">>, <<"products">>, <<"orders">>}
           /\ result = Result(TRUE, None)

C12_Witness == AnalystModerateProducts /\ result.is_valid

Answered(k) == pc = "answered" /\ answer.kind = k

\* the roles the table resolver maps to all tables (rbac.py:201)
AdminEquivalent == {"ADMIN", "DATA_SCIENTIST"}

C14_SensitiveColumnsDenied ==
    /\ (Answered("check") /\ role_arg # "ADMIN"
            /\ IsSensitive(table_arg, columns_arg[1]))
         => answer.value = FALSE
    /\ (Answered("filter") /\ role_arg # "ADMIN")
         => \A i \in 1..Len(answer.value) :
                ~IsSensitive(table_arg, answer.value[i])

\* ANALYST, whose entry for customers is '*', asks for phone and city
C14_Witness ==
    /\ Answered("filter")
    /\ role_arg = "ANALYST"
    /\ table_arg = "customers"
    /\ columns_arg = <<"phone", "city">>
    /\ answer.value = <<"city">>

\* C15: the result of validate is fixed by its arguments (query, user, mode):
\* it is the same under every iteration order the set FORBIDDEN_KEYWORDS
\* can have, so a repeated call returns the same is_valid and message.
C15_ResultIndependentOfSetOrder ==
    Validated
        => \A seed \in HashSeeds :
               validate(query, user, strict_arg, safety_mode, seed) = result

LeadingWith(q) == StartsWithWITH(Upper(Strip(q)))

\* C16: a statement with a leading WITH is classified by its terminal
\* command: WITH ... SELECT is not rejected by the statement type check,
\* and a WITH-led statement whose terminal command is not SELECT is not
\* accepted.
C16_WithClassifiedByTerminalCommand ==
    (Validated /\ LeadingWith(query) /\ ~HasStackedStatement(query))
        => IF StatementType(query) = "SELECT"
           THEN ~ErrorStarts(result, "Only SELECT queries are allowed (got ")
           ELSE ~result.is_valid

\* the query holds, as a word of its own and in some letter case, a
\* forbidden keyword
HasKeywordWord(q) == ForbiddenWordsIn(q) # {}

\* the query holds a forbidden keyword only inside a longer word
HasKeywordInsideOnly(q) ==
    /\ ~HasKeywordWord(q)
    /\ \E i \in 1..Len(q) : \E k \in FORBIDDEN_KEYWORDS :
           <<UpperWord(q[i]), k>> \in KeywordInside

ForbiddenKeywordRejection(r) ==
    ~r.is_valid /\ ErrorStarts(r, "Query contains forbidden keyword: ")

\* the caller for whom the scan skips the keywords it finds
ScanSkips ==
    /\ IF strict_arg = "unset" THEN safety_mode # "strict"
       ELSE strict_arg = "false"
    /\ MayExecuteDangerous(user)

C18_SingleStatementNotMultiple ==
    (Validated /\ ~HasStackedStatement(query))
        => ~ErrorStarts(result, "Multiple statements")

EmptyInput(q) == Strip(q) = <<>>

EmptyRejection(r) ==
    r = Result(FALSE, Str(<<"Could not parse SQL query">>))

\* C19: empty or whitespace-only input is rejected by validate, in every
\* mode and for every caller, no earlier gate having decided; the reason is
\* the one validate gives to empty input and to no other.
C19_EmptyInputRejected ==
    Validated => (EmptyInput(query) <=> EmptyRejection(result))

C19_Witness ==
    /\ Validated
    /\ query = <<" ">>
    /\ user.present
    /\ safety_mode = "permissive"
    /\ EmptyRejection(result)

\* a pair (is_valid, message) as validate documents it: a message goes with
\* every rejection and with no acceptance
Structured(r) ==
    /\ r.exc.none
    /\ r.is_valid \in BOOLEAN
    /\ r.is_valid <=> r.error.none

StructuredDetails(d) ==
    /\ d.exc.none
    /\ d.is_valid \in BOOLEAN
    /\ d.is_valid <=> d.error_message.none
    /\ d.blocked_reason = d.error_message

ParseError(e) ==
    ~e.none /\ Len(e.text) >= 2 /\ e.text[1] = "SQL parsing error: "

\* the call got as far as the parser
ReachedParser(e) ==
    ~e.none /\ e.text[1] \notin {"Query contains forbidden keyword: ",
                                  "Multiple statements"}

\* C20: whatever the text (SQL, garbage, or text the parser raises on) and
\* whoever the caller, validate returns a pair (is_valid, message) and
\* validate_with_details an SQLValidationResult, no exception leaves either
\* call, and a failure of the parser gives is_valid = False with the
\* parsing error message.
C20_NoExceptionLeavesValidator ==
    /\ Validated => Structured(result)
    /\ Detailed => StructuredDetails(details)
    /\ (Validated /\ ParserRaises(query))
         => /\ ~result.is_valid
            /\ ReachedParser(result.error) => ParseError(result.error)
    /\ (Detailed /\ ParserRaises(query))
         => /\ ~details.is_valid
            /\ details.tables_accessed = {}
            /\ ReachedParser(details.error_message)
                 => ParseError(details.error_message)

C20_Witness ==
    /\ Validated
    /\ ParserRaises(query)
    /\ user.present
    /\ result = Result(FALSE, Str(<<"SQL parsing error: ",
                                    "maximum recursion depth exceeded">>))

PolicyAnswered == pc = "answered" /\ answer.kind = "policy"

\* the policies get_policy can hand out
Registry == { get_policy(m) : m \in ModeNames }

\* the commands the categories of the policy table stand for
CTE_SELECT == {"WITH"}

MUTATING == {"INSERT", "UPDATE", "DELETE", "MERGE", "REPLACE"}

DESTRUCTIVE_DDL == {"DROP", "TRUNCATE", "ALTER"}

LowerAll(S) == { LowerWord(x) : x \in S }

\* the rows of the policy table as stated, function names compared without
\* regard to letter case
StatedRow(p) ==
    CASE p.mode = "strict" ->
            /\ p.allowed_commands = {"SELECT"}
            /\ p.max_rows = 100
            /\ ~p.allow_joins /\ ~p.allow_subqueries
            /\ LowerAll(p.forbidden_functions)
                 = LowerAll({"SLEEP", "BENCHMARK", "RANDOM", "pg_sleep"})
            /\ p.required_where_clause
      [] p.mode = "moderate" ->
            /\ p.allowed_commands = {"SELECT"} \cup CTE_SELECT
            /\ p.max_rows = 1000
            /\ p.allow_joins /\ p.allow_subqueries
            /\ LowerAll(p.forbidden_functions)
                 = LowerAll({"SLEEP", "BENCHMARK", "pg_sleep"})
            /\ ~p.required_where_clause
      [] p.mode = "permissive" ->
            /\ p.allowed_commands
                 = {"SELECT"} \cup CTE_SELECT \cup MUTATING \cup DESTRUCTIVE_DDL
            /\ p.max_rows = 10000
            /\ p.allow_joins /\ p.allow_subqueries
            /\ p.forbidden_functions = {}
            /\ ~p.required_where_clause
      [] OTHER -> FALSE

\* the rows with the command set of the permissive policy as registered
RegisteredRow(p) ==
    CASE p.mode = "strict" ->
            /\ p.allowed_commands = {"SELECT"}
            /\ p.max_rows = 100
            /\ ~p.allow_joins /\ ~p.allow_subqueries
            /\ p.forbidden_functions
                 = {"SLEEP", "BENCHMARK", "pg_sleep", "random"}
            /\ p.required_where_clause
      [] p.mode = "moderate" ->
            /\ p.allowed_commands = {"SELECT", "WITH"}
            /\ p.max_rows = 1000
            /\ p.allow_joins /\ p.allow_subqueries
            /\ p.forbidden_functions = {"SLEEP", "BENCHMARK", "pg_sleep"}
            /\ ~p.required_where_clause
      [] p.mode = "permissive" ->
            /\ p.allowed_commands
                 = {"SELECT", "WITH", "INSERT", "UPDATE", "DELETE", "CREATE",
                    "DROP"}
            /\ p.max_rows = 10000
            /\ p.allow_joins /\ p.allow_subqueries
            /\ p.forbidden_functions = {}
            /\ ~p.required_where_clause
      [] OTHER -> FALSE

ThreePolicies ==
    /\ Cardinality(Registry) = 3
    /\ { p.mode : p \in Registry } = {"strict", "moderate", "permissive"}

\* C21 as stated: the registry holds exactly three policies and the policy
\* get_policy hands out has the fields of its row of the policy table, the
\* permissive commands being SELECT, WITH, INSERT, UPDATE, DELETE, MERGE,
\* REPLACE, DROP, TRUNCATE and ALTER.
C21_PoliciesEqualStatedTable ==
    PolicyAnswered => (ThreePolicies /\ StatedRow(answer.value))

\* C21 amended: the registry holds exactly three policies and the policy
\* get_policy hands out has the fields of its row, the permissive commands
\* being SELECT, WITH, INSERT, UPDATE, DELETE, CREATE and DROP.
C21_PoliciesEqualRegisteredTable ==
    PolicyAnswered => (ThreePolicies /\ RegisteredRow(answer.value))

C21_Witness ==
    /\ PolicyAnswered
    /\ mode_arg = "permissive"
    /\ answer.value.max_rows = 10000
    /\ "CREATE" \in answer.value.allowed_commands

PermissionsAnswered == pc = "answered" /\ answer.kind = "permissions"

\* the roles reached from the roles of S by at most n hierarchy edges
RECURSIVE ReachedWithin(_, _)
ReachedWithin(S, n) ==
    IF n = 0 THEN S
    ELSE LET prev == ReachedWithin(S, n - 1)
         IN  prev \cup UNION { ROLE_HIERARCHY[r] : r \in prev }

\* the roles reached from S by any number of edges, S included
ReachedFrom(S) == ReachedWithin(S, Cardinality(RoleEnum))

\* the roles reached from r by one edge or more
Below(r) == ReachedFrom(ROLE_HIERARCHY[r])

\* the union of the direct permissions over everything reached from S
Resolved(S) == UNION { DEFAULT_ROLE_PERMISSIONS[r] : r \in ReachedFrom(S) }

Acyclic == \A r \in RoleEnum : r \notin Below(r)

ParentsCoverChildren ==
    \A r \in RoleEnum : \A c \in ROLE_HIERARCHY[r] :
        Resolved({c}) \subseteq Resolved({r})

\* C22: get_user_permissions(user) is the union of the direct default
\* permissions of every role of the user and of every role reached from it
\* along ROLE_HIERARCHY, transitively; the hierarchy has no cycle, a parent
\* resolves to a superset of each child, and a role name outside RoleEnum
\* adds nothing.
C22_PermissionsAreTransitiveUnion ==
    PermissionsAnswered
        => /\ answer.value = Resolved(user.roles \cap RoleEnum)
           /\ answer.value
                = UNION { Resolved({r}) : r \in user.roles \cap RoleEnum }
           /\ Acyclic
           /\ ParentsCoverChildren

\* an ANALYST who also carries an unknown role name
C22_Witness ==
    /\ PermissionsAnswered
    /\ user.roles = {"ANALYST", "GUEST"}
    /\ answer.value = {"READ", "EXECUTE_QUERY"}

\* the length of the longest query validated
LongestLength ==
    CHOOSE n \in { Len(q) : q \in Queries } :
        \A q \in Queries : Len(q) <= n

\* C23: the work of validate is bounded: a statement beyond the maximum
\* length (whatever maximum lies below the longest statement validated) and
\* a statement nested beyond the maximum depth are rejected, with the
\* parsing error unless an earlier gate rejected them.
C23_LongAndDeepStatementsRejected ==
    (Validated /\ (Len(query) = LongestLength \/ ParserRaises(query)))
        => /\ ~result.is_valid
           /\ ReachedParser(result.error) => ParseError(result.error)

\* C24: the registries are not changed by any call nor through anything a
\* call hands to its caller, so COLUMN_ACCESS_POLICIES keeps its entries and
\* a column check answers what it answers when run alone.
C24_RegistriesNeverChange ==
    /\ column_policies = COLUMN_ACCESS_POLICIES
    /\ pc = "checked"
         => answer.value
              = is_column_access_allowed(role_arg, table_arg, columns_arg[1])

Explained == pc = "explained"

\* the rejection is one for a command that is not allowed
CommandRejection(r) ==
    \/ ErrorStarts(r, "Query contains forbidden keyword: ")
    \/ ErrorStarts(r, "Only SELECT queries are allowed (got ")

\* the column names a caller's view can exclude
HiddenColumnNames == UNION { e[2] : e \in SENSITIVE_COLUMNS }

\* C25: the explanation of a rejection is the sentence of its category with
\* the values of the policy in force: mode and allowed commands for a
\* command that is not allowed, the injection rationale for multiple
\* statements, the permission rationale for a table access; and it names no
\* column excluded from the caller's view.
C25_ExplanationNamesPolicyValues ==
    Explained
        => /\ CommandRejection(result)
                => /\ answer.value.template = "command not allowed in mode"
                   /\ answer.value.names
                        = <<safety_mode, get_policy(safety_mode).allowed_commands>>
           /\ ErrorStarts(result, "Multiple statements")
                => answer.value.template
                     = "multiple statements blocked against injection"
           /\ AccessDenied(result)
                => answer.value.template = "no permission to access tables"
           /\ \A i \in 1..Len(result.error.text) :
                  result.error.text[i] \notin HiddenColumnNames

\* the gates of validate, each told from the arguments alone
FailsKeywordGate == HasKeywordWord(query) /\ ~ScanSkips

FailsSplitGate == ContainsAtom(RStripSemicolons(Strip(query)), ";")

FailsParseGate == EmptyInput(query) \/ ParserRaises(query)

FailsCommandGate ==
    /\ ~FailsParseGate
    /\ StatementType(query) \notin {"SELECT", "UNKNOWN"}
    /\ ~LeadingWith(query)

C27_ExecutedOnlyAfterAccepted ==
    /\ \A i \in 1..Len(api.executed) :
          /\ api.verdict = "accepted"
          /\ api.executed[i] = api.generated_sql
    /\ api.verdict = "rejected" => api.executed = <<>>
    /\ (api.endpoint = "/query/" /\ api.dry_run) => api.executed = <<>>
    /\ api.step = "done" => api.verdict # "none"

\* C28: a column check does not depend on letter case: the answer for a
\* table and a column is the answer for their lower-case spelling, so a
\* sensitive column is denied to every role but ADMIN however it is cased.
C28_ColumnCheckIgnoresCase ==
    Answered("check")
        => answer.value
             = is_column_access_allowed(role_arg, LowerWord(table_arg),
                                        LowerWord(columns_arg[1]))

\* the names of tables that occur in the queries
TableWords == {"sales", "products", "customers", "Products", "salaries"}

\* a SELECT statement
ReadsOnly(q) == Strip(q) # <<>> /\ UpperWord(Strip(q)[1]) = "SELECT"

\* the queries that differ from q in one table name and in nothing else
SameButTable(q) ==
    { [q EXCEPT ![i] = t] :
          i \in {j \in 1..Len(q) : q[j] \in TableWords}, t \in TableWords }

SelectQuoted(t) == <<"SELECT", " ", "*", " ", "FROM", "\"", t, "\"">>

StrictSpellings == {"strict", "STRICT", "Strict"}

PermissiveSpellings == {"permissive", "PERMISSIVE", "Permissive"}

\* C30: get_policy answers for every mode name: the strict policy for every
\* casing of strict, the permissive policy for every casing of permissive,
\* and the moderate policy for every other name, moderate, a misspelling and
\* the empty name included; the answer is one of the three module policies.
C30_GetPolicyTotalAnyCase ==
    PolicyAnswered
        => /\ mode_arg \in StrictSpellings => answer.value = STRICT_POLICY
           /\ mode_arg \in PermissiveSpellings
                  => answer.value = PERMISSIVE_POLICY
           /\ mode_arg \notin StrictSpellings \cup PermissiveSpellings
                  => answer.value = MODERATE_POLICY
           /\ answer.value
                  \in {STRICT_POLICY, MODERATE_POLICY, PERMISSIVE_POLICY}

C30_Witness ==
    /\ PolicyAnswered
    /\ mode_arg = "STRICT"
    /\ answer.value = STRICT_POLICY
    /\ get_policy("strcit") = MODERATE_POLICY

================================================================
